---- MODULE Spec2Model ----
(***************************************************************************)
(* whisper-rust/src/lib.rs: the WhisperManager (registry of lazily loaded  *)
(* WhisperModel slots behind an RwLock, one Mutex per slot, one shared     *)
(* CpuMonitor) and the extern "C" entry points that call into it.          *)
(*                                                                         *)
(* Threads call the entry points concurrently.  A step of the model is one *)
(* lock acquisition together with the field accesses made under it, or one *)
(* call of the external engine (WhisperContext), or one return.            *)
(***************************************************************************)
EXTENDS Integers, Sequences, FiniteSets, TLC

(* ---------------------------------------------------------------- bounds *)
NumThreads == 2      \* calling threads
MaxCalls == 3        \* entry-point calls started in one behaviour
MaxTime == 60        \* the clock (seconds) stops advancing here
ClockStep == 30      \* seconds by which one Tick advances the clock

Threads == 1..NumThreads
NoThread == 0

(* ------------------------------------------------------- program constants *)
MB == 1024 * 1024
IdleTimeoutSecs == 30       \* WhisperModel::new: Duration::from_secs(30)
max_samples == 10           \* CpuMonitor::new
memory_limit_none == 0 * MB  \* a manager with no memory budget at all
memory_limit == 700 * MB    \* WhisperManager::new
DowngradeThreshold == 80    \* suggest_model_downgrade: should_downgrade(80.0)

(* --------------------------------------------------------------- strings *)
\* A string is the sequence of its characters; NUL is the zero byte.
NUL == "NUL"
SPACE == " "

Contains(s, sub) ==
    \E i \in 1..(Len(s) - Len(sub) + 1) : SubSeq(s, i, i + Len(sub) - 1) = sub

\* str::replace(['/', '\\', '.'], "_")
ReplaceSeparators(s) ==
    [i \in 1..Len(s) |-> IF s[i] \in {"/", "\\", "."} THEN "_" ELSE s[i]]

\* str::trim
RECURSIVE TrimStart(_)
TrimStart(s) ==
    IF s # <<>> /\ Head(s) = SPACE THEN TrimStart(Tail(s)) ELSE s

RECURSIVE TrimEnd(_)
TrimEnd(s) ==
    IF s # <<>> /\ s[Len(s)] = SPACE THEN TrimEnd(SubSeq(s, 1, Len(s) - 1)) ELSE s

Trim(s) == TrimEnd(TrimStart(s))

\* CString::new: fails on an interior zero byte
CStringNew(s) ==
    IF \E i \in 1..Len(s) : s[i] = NUL
    THEN [ok |-> FALSE]
    ELSE [ok |-> TRUE, val |-> s]

\* Raw pointers of the C interface
Null == [null |-> TRUE]
Ptr(x) == [null |-> FALSE, val |-> x]

(* ------------------------------------------------------------ data model *)
\* ModelSize::from_name
from_name(name) ==
    IF Contains(name, <<"t", "i", "n", "y">>) THEN "Tiny"
    ELSE IF Contains(name, <<"s", "m", "a", "l", "l">>) THEN "Small"
    ELSE "Medium"

\* The ModelInfo whisper_init builds from the path (cpu_factor in tenths)
InitModelInfo(path_str) ==
    LET model_size == from_name(path_str) IN
    [ name |-> path_str,
      size |-> model_size,
      memory_usage |-> CASE model_size = "Tiny" -> 39 * MB
                         [] model_size = "Small" -> 244 * MB
                         [] model_size = "Medium" -> 769 * MB,
      cpu_factor |-> CASE model_size = "Tiny" -> 10
                       [] model_size = "Small" -> 25
                       [] model_size = "Medium" -> 40 ]

\* format!("model_{}", path_str.replace(['/', '\\', '.'], "_"))
ModelIdOf(path_str) ==
    <<"m", "o", "d", "e", "l", "_">> \o ReplaceSeparators(path_str)

\* A WhisperModel::new whose slot starts out holding a handle
WhisperModel_new_resident(model_path, model_info, t_now) ==
    [ ctx |-> TRUE,
      model_path |-> model_path,
      model_info |-> model_info,
      last_used |-> t_now,
      idle_timeout |-> IdleTimeoutSecs,
      is_loading |-> FALSE,
      locked_by |-> NoThread,
      poisoned |-> FALSE ]

\* WhisperModel::new, wrapped by register_model in Arc::new(Mutex::new(..)).
\* ctx is TRUE when the slot holds an engine handle; locked_by is the thread
\* holding the slot's Mutex and poisoned its poison flag (a fresh Mutex is
\* unlocked and not poisoned).
WhisperModel_new(model_path, model_info, t_now) ==
    [ ctx |-> FALSE,
      model_path |-> model_path,
      model_info |-> model_info,
      last_used |-> t_now,
      idle_timeout |-> IdleTimeoutSecs,
      is_loading |-> FALSE,
      locked_by |-> NoThread,
      poisoned |-> FALSE ]

\* A should_unload that forgets the idle window: every resident slot qualifies
should_unload_any_resident(m, t_now) == m.ctx

\* WhisperModel::should_unload
should_unload(m, t_now) ==
    m.ctx /\ (t_now - m.last_used) > m.idle_timeout

\* WhisperModel::unload
unload(m) == [m EXCEPT !.ctx = FALSE]

\* A memory_usage that reports the footprint whether or not a handle is held
memory_usage_ignores_ctx(m) == m.model_info.memory_usage

\* WhisperModel::memory_usage
memory_usage(m) ==
    IF m.ctx THEN m.model_info.memory_usage ELSE 0

(* ------------------------------------------------------------ environment *)
\* Paths the callers pass to whisper_init
PathTiny == <<"t", "i", "n", "y", ".", "e", "n">>
PathMedium == <<"m", "e", "d", "i", "u", "m", ".", "e", "n">>
PathInvalid == <<"i", "n", "v", "a", "l", "i", "d", "_", "p", "a", "t", "h">>
Paths == {PathTiny, PathMedium, PathInvalid}

\* The paths at which the engine finds a model file it can load
LoadablePaths == {PathTiny, PathMedium}

\* WhisperContext::new_with_params (external engine)
new_with_params(model_path) == model_path \in LoadablePaths

ModelIds == {ModelIdOf(p) : p \in Paths}

\* What the engine reports when it fails
EngineError == <<"e", "r", "r">>

\* What full_n_segments / full_get_segment_text give back after a successful
\* context.full: the segment count fails, or each segment is a text or fails.
SegOk(s) == [ok |-> TRUE, val |-> s]
SegErr == [ok |-> FALSE]
SegmentReads ==
    { [n_ok |-> FALSE],
      [n_ok |-> TRUE, segs |-> << SegOk(<<SPACE, "h", "i">>), SegOk(<<"y", "o", SPACE>>) >>],
      [n_ok |-> TRUE, segs |-> << SegErr, SegOk(<<"a", NUL>>) >>] }

\* transcribe, lines 200-210: join the readable segments, a space after each
\* but the last, and trim the whole.
RECURSIVE JoinFrom(_, _)
JoinFrom(segs, i) ==
    IF i > Len(segs) THEN <<>>
    ELSE (IF segs[i].ok
          THEN segs[i].val \o (IF i < Len(segs) THEN <<SPACE>> ELSE <<>>)
          ELSE <<>>) \o JoinFrom(segs, i + 1)

full_text(segs) == Trim(JoinFrom(segs, 1))

\* Error strings: a fixed format and the text interpolated into it
ErrMsg(fmt, arg) == [fmt |-> fmt, arg |-> arg]
Ok(v) == [ok |-> TRUE, val |-> v]
Err(e) == [ok |-> FALSE, err |-> e]

\* create_error_string: null when the message holds a zero byte
create_error_string(msg) ==
    IF CStringNew(msg.arg).ok THEN Ptr(msg) ELSE Null

\* WhisperResult
WhisperResult(success, text, error) ==
    [success |-> success, text |-> text, error |-> error]

(* ------------------------------------------------------------ CpuMonitor *)
CpuMonitor_new == [cpu_samples |-> <<>>, sample_count |-> 0]

\* A record_cpu_usage that stores the sample and leaves sample_count alone
record_cpu_usage_no_count(mon, cpu_percent) ==
    [ cpu_samples |->
        IF Len(mon.cpu_samples) < max_samples
        THEN Append(mon.cpu_samples, cpu_percent)
        ELSE [mon.cpu_samples EXCEPT ![(mon.sample_count % max_samples) + 1] = cpu_percent],
      sample_count |-> mon.sample_count ]

\* A record_cpu_usage whose full buffer always overwrites its first sample
record_cpu_usage_overwrites_first(mon, cpu_percent) ==
    [ cpu_samples |->
        IF Len(mon.cpu_samples) < max_samples
        THEN Append(mon.cpu_samples, cpu_percent)
        ELSE [mon.cpu_samples EXCEPT ![1] = cpu_percent],
      sample_count |-> mon.sample_count + 1 ]

\* CpuMonitor::record_cpu_usage
record_cpu_usage(mon, cpu_percent) ==
    [ cpu_samples |->
        IF Len(mon.cpu_samples) < max_samples
        THEN Append(mon.cpu_samples, cpu_percent)
        ELSE [mon.cpu_samples EXCEPT ![(mon.sample_count % max_samples) + 1] = cpu_percent],
      sample_count |-> mon.sample_count + 1 ]

RECURSIVE SeqSum(_)
SeqSum(s) == IF s = <<>> THEN 0 ELSE Head(s) + SeqSum(Tail(s))

\* CpuMonitor::average_cpu_usage, as the fraction num / den
average_cpu_usage(mon) ==
    IF mon.cpu_samples = <<>>
    THEN [num |-> 0, den |-> 1]
    ELSE [num |-> SeqSum(mon.cpu_samples), den |-> Len(mon.cpu_samples)]

\* average_cpu_usage() > threshold
should_downgrade(mon, threshold) ==
    average_cpu_usage(mon).num > threshold * average_cpu_usage(mon).den

\* WhisperManager::suggest_model_downgrade
suggest_model_downgrade(mon, current_model) ==
    IF should_downgrade(mon, DowngradeThreshold)
    THEN IF Contains(current_model, <<"m", "e", "d", "i", "u", "m">>)
         THEN Ptr(<<"s", "m", "a", "l", "l">>)
         ELSE IF Contains(current_model, <<"s", "m", "a", "l", "l">>)
              THEN Ptr(<<"t", "i", "n", "y">>)
              ELSE Null
    ELSE Null

\* transcribe, lines 214-215: (elapsed seconds * 100.0).min(100.0)
estimated_cpu(elapsed) == IF elapsed * 100 < 100 THEN elapsed * 100 ELSE 100

(* ------------------------------------------------------------------ state *)
VARIABLES
    models,        \* WhisperManager.models: registered id -> slot (Arc<Mutex<WhisperModel>>)
    readers,       \* threads holding a read guard of the models RwLock
    cpu_monitor,   \* WhisperManager.cpu_monitor
    now,           \* Instant::now(), in seconds
    calls,         \* entry-point calls started so far
    pc,            \* where each thread is in its call
    op,            \* each thread's current call and its arguments
    frame,         \* each thread's locals
    ret,           \* the call that returned in the last step, and its result
    seen,          \* totals of memory_usage() over the registry that held at
                   \* some moment of a thread's whisper_get_memory_usage call
    recorded,      \* every sample given to record_cpu_usage so far, in order
    handles        \* for each registered id, the boxed WhisperHandles of it
                   \* that whisper_init returned and whisper_free has not dropped

vars == <<models, readers, cpu_monitor, now, calls, pc, op, frame, ret, seen,
          recorded, handles>>

NoOp == [name |-> "none"]
NoRet == [call |-> "none"]
NoFrame == [start_time |-> 0, usage |-> 0, todo |-> {}, cur |-> <<>>, text |-> <<>>]

\* WhisperManager::new, and no thread inside a call
Init ==
    /\ models = <<>>
    /\ readers = {}
    /\ cpu_monitor = CpuMonitor_new
    /\ now = 0
    /\ calls = 0
    /\ pc = [t \in Threads |-> "idle"]
    /\ op = [t \in Threads |-> NoOp]
    /\ frame = [t \in Threads |-> NoFrame]
    /\ ret = NoRet
    /\ seen = [t \in Threads |-> {}]
    /\ recorded = <<>>
    /\ handles = <<>>

(* ------------------------------------------------------------------ locks *)
\* An RwLock that grants its write guard while read guards are out
RwLockWriteFree_always == TRUE

\* An RwLock that never grants its write guard
RwLockWriteFree_never == FALSE

\* RwLock::write is granted when no guard is out (write sections are one step
\* long, so no writer is ever seen by another step)
RwLockWriteFree == readers = {}

\* A Mutex that grants its guard to every caller
MutexFree_always(m) == TRUE

\* Mutex::lock is granted when no thread holds the slot's guard
MutexFree(m) == m.locked_by = NoThread

RECURSIVE SumUsage(_, _)
SumUsage(ms, ids) ==
    IF ids = {} THEN 0
    ELSE LET id == CHOOSE x \in ids : TRUE
         IN memory_usage(ms[id]) + SumUsage(ms, ids \ {id})

\* The sum of memory_usage() over all slots of the registry, at one moment
TotalUsage(ms) == SumUsage(ms, DOMAIN ms)

\* Every step records the total it leaves behind for the threads that are
\* inside whisper_get_memory_usage (up to the state in which the call returns).
ObserveUsage ==
    seen' = [t \in Threads |->
               IF op[t].name = "whisper_get_memory_usage"
               THEN seen[t] \cup {TotalUsage(models')}
               ELSE IF \/ op'[t].name = "whisper_get_memory_usage"
                       \/ ret'.call = "whisper_get_memory_usage" /\ ret'.thread = t
                    THEN {TotalUsage(models), TotalUsage(models')}
                    ELSE {}]

\* The steps that record no CPU sample
Observe == ObserveUsage /\ UNCHANGED <<recorded, handles>>

\* A call starts on an idle thread.  Idle threads hold no state and are
\* interchangeable, so the call is given to the first of them.
Begin(t) ==
    /\ pc[t] = "idle"
    /\ \A u \in Threads : u < t => pc[u] # "idle"
    /\ calls < MaxCalls
    /\ calls' = calls + 1

\* A call returns r: the thread is idle again and its locals are gone
Return(t, r) ==
    /\ pc' = [pc EXCEPT ![t] = "idle"]
    /\ op' = [op EXCEPT ![t] = NoOp]
    /\ frame' = [frame EXCEPT ![t] = NoFrame]
    /\ ret' = r

\* A call o of thread t goes on at label with locals f
Goto(t, o, label, f) ==
    /\ pc' = [pc EXCEPT ![t] = label]
    /\ op' = [op EXCEPT ![t] = o]
    /\ frame' = [frame EXCEPT ![t] = f]
    /\ ret' = NoRet

(* ----------------------------------------------------------- whisper_init *)
InitArgs ==
    {[null |-> TRUE], [null |-> FALSE, utf8 |-> FALSE]}
        \cup {[null |-> FALSE, utf8 |-> TRUE, val |-> p] : p \in Paths}

\* whisper_init up to the call of register_model: a null or non-UTF-8 path
\* returns null; otherwise WhisperModel::new is built (line 163) and the
\* thread goes on to take the write lock.
whisper_init(t) ==
    /\ Begin(t)
    /\ \E model_path \in InitArgs :
         IF model_path.null \/ ~model_path.utf8
         THEN Return(t, [call |-> "whisper_init", thread |-> t, arg |-> model_path,
                         handle |-> Null])
         ELSE Goto(t, [name |-> "whisper_init", arg |-> model_path], "reg_write",
                   [NoFrame EXCEPT !.start_time = now])
    /\ UNCHANGED <<models, readers, cpu_monitor, now>>
    /\ Observe

\* register_model, lines 164-166, and whisper_init's return of the boxed handle
register_model(t) ==
    /\ pc[t] = "reg_write"
    /\ RwLockWriteFree
    /\ LET path_str == op[t].arg.val
           id == ModelIdOf(path_str)
           model == WhisperModel_new(path_str, InitModelInfo(path_str),
                                     frame[t].start_time)
       IN /\ models' = [i \in DOMAIN models \cup {id} |->
                          IF i = id THEN model ELSE models[i]]
          /\ handles' = [i \in DOMAIN models \cup {id} |->
                           IF i = id
                           THEN (IF id \in DOMAIN handles THEN handles[id] ELSE 0) + 1
                           ELSE handles[i]]
          /\ Return(t, [call |-> "whisper_init", thread |-> t, arg |-> op[t].arg,
                        handle |-> Ptr([model_id |-> id])])
    /\ UNCHANGED <<readers, cpu_monitor, now, calls, recorded>>
    /\ ObserveUsage

(* ------------------------------------------------- current_memory_usage *)
\* Where call o goes once manage_memory has returned Ok
AfterManage(t, o, f) ==
    IF o.name = "whisper_cleanup_memory"
    THEN Return(t, [call |-> "whisper_cleanup_memory", thread |-> t, value |-> TRUE])
    ELSE Goto(t, o, "tr_read", [NoFrame EXCEPT !.start_time = f.start_time])

\* Where call o goes once current_memory_usage has returned `usage`:
\* whisper_get_memory_usage returns it; manage_memory (line 227) scans when it
\* is over the limit.
AfterUsage(t, o, f, usage) ==
    IF o.name = "whisper_get_memory_usage"
    THEN Return(t, [call |-> "whisper_get_memory_usage", thread |-> t, value |-> usage])
    ELSE IF usage > memory_limit
         THEN Goto(t, o, "mm_read", [f EXCEPT !.usage = usage])
         ELSE AfterManage(t, o, f)

\* Lines 244-249: take the read lock and start models.values(), whose order
\* a HashMap does not fix.
StartUsage(t, o, f) ==
    IF DOMAIN models = {}
    THEN /\ AfterUsage(t, o, f, 0)
         /\ UNCHANGED readers
    ELSE /\ readers' = readers \cup {t}
         /\ \E first \in DOMAIN models :
              Goto(t, o, "cmu_lock", [f EXCEPT !.usage = 0, !.cur = first,
                                               !.todo = DOMAIN models \ {first}])

\* Lines 250-253: lock the next slot, add its memory_usage(), unlock (a slot
\* whose lock() fails, being poisoned, is filtered out); after the last slot
\* the read guard is dropped and the sum returned.
cmu_lock(t) ==
    /\ pc[t] = "cmu_lock"
    /\ MutexFree(models[frame[t].cur])
    /\ LET usage == IF models[frame[t].cur].poisoned
                    THEN frame[t].usage
                    ELSE frame[t].usage + memory_usage(models[frame[t].cur]) IN
       IF frame[t].todo = {}
       THEN /\ readers' = readers \ {t}
            /\ AfterUsage(t, op[t], frame[t], usage)
       ELSE /\ \E next \in frame[t].todo :
                 Goto(t, op[t], "cmu_lock",
                      [frame[t] EXCEPT !.usage = usage, !.cur = next,
                                       !.todo = frame[t].todo \ {next}])
            /\ UNCHANGED readers
    /\ UNCHANGED <<models, cpu_monitor, now, calls>>
    /\ Observe

\* whisper_get_memory_usage: current_memory_usage() from its first line
whisper_get_memory_usage(t) ==
    /\ Begin(t)
    /\ StartUsage(t, [name |-> "whisper_get_memory_usage"], NoFrame)
    /\ UNCHANGED <<models, cpu_monitor, now>>
    /\ Observe

(* ---------------------------------------------------------- manage_memory *)
\* whisper_cleanup_memory: manage_memory() from its first line
whisper_cleanup_memory(t) ==
    /\ Begin(t)
    /\ StartUsage(t, [name |-> "whisper_cleanup_memory"], NoFrame)
    /\ UNCHANGED <<models, cpu_monitor, now>>
    /\ Observe

\* Line 229: over the limit, take the read lock and start models.values()
mm_read(t) ==
    /\ pc[t] = "mm_read"
    /\ IF DOMAIN models = {}
       THEN /\ AfterManage(t, op[t], frame[t])
            /\ UNCHANGED readers
       ELSE /\ readers' = readers \cup {t}
            /\ \E first \in DOMAIN models :
                 Goto(t, op[t], "mm_lock",
                      [frame[t] EXCEPT !.cur = first, !.todo = DOMAIN models \ {first}])
    /\ UNCHANGED <<models, cpu_monitor, now, calls>>
    /\ Observe

\* Lines 231-236: lock the next slot and unload it if should_unload(); a slot
\* whose lock() fails, being poisoned, is passed over
mm_lock(t) ==
    /\ pc[t] = "mm_lock"
    /\ LET id == frame[t].cur IN
       /\ MutexFree(models[id])
       /\ models' = [models EXCEPT ![id] =
                        IF ~models[id].poisoned /\ should_unload(models[id], now)
                        THEN unload(models[id])
                        ELSE models[id]]
    /\ IF frame[t].todo = {}
       THEN /\ readers' = readers \ {t}
            /\ AfterManage(t, op[t], frame[t])
       ELSE /\ \E next \in frame[t].todo :
                 Goto(t, op[t], "mm_lock",
                      [frame[t] EXCEPT !.cur = next, !.todo = frame[t].todo \ {next}])
            /\ UNCHANGED readers
    /\ UNCHANGED <<cpu_monitor, now, calls>>
    /\ Observe

(* -------------------------------------------------------------- transcribe *)
AudioLen == 1000     \* samples in the callers' audio buffers
Samples == Ptr("samples")

\* ensure_loaded, lines 69-72: touch last_used, and mark the slot as loading
\* when it holds no handle and no load is under way
ensure_loaded_begin(m, t_now) ==
    [m EXCEPT !.last_used = t_now,
              !.is_loading = IF ~m.ctx /\ ~m.is_loading THEN TRUE ELSE m.is_loading]

\* An ensure_loaded that returns a failed load without clearing is_loading
ensure_loaded_end_keeps_flag(m, loaded) ==
    [m EXCEPT !.ctx = IF loaded THEN TRUE ELSE m.ctx,
              !.is_loading = IF loaded THEN FALSE ELSE m.is_loading]

\* ensure_loaded, lines 75-84: the engine's constructor has returned
ensure_loaded_end(m, loaded) ==
    [m EXCEPT !.ctx = IF loaded THEN TRUE ELSE m.ctx,
              !.is_loading = FALSE]

\* End of the block of lines 175-211 (or a `?` leaving it): the slot guard and
\* the read guard drop
Unlock(t, ms) ==
    /\ models' = [ms EXCEPT ![frame[t].cur].locked_by = NoThread]
    /\ readers' = readers \ {t}

\* transcribe returns Err(e): to the caller, or to whisper_transcribe, which
\* wraps it (lines 383-387)
ReturnErr(t, e) ==
    IF op[t].name = "transcribe"
    THEN Return(t, [call |-> "transcribe", thread |-> t, model_id |-> op[t].model_id,
                    result |-> Err(e)])
    ELSE Return(t, [call |-> "whisper_transcribe", thread |-> t, arg |-> op[t].arg,
                    result |-> WhisperResult(FALSE, Null, create_error_string(e))])

\* WhisperManager::transcribe called directly, as the crate's tests do, with
\* an id no handle exists for (whisper_transcribe covers the registered ids):
\* start_time is taken and manage_memory() entered
transcribe(t) ==
    /\ Begin(t)
    /\ \E model_id \in ModelIds \ DOMAIN models :
         StartUsage(t, [name |-> "transcribe", model_id |-> model_id],
                    [NoFrame EXCEPT !.start_time = now])
    /\ UNCHANGED <<models, cpu_monitor, now>>
    /\ Observe

\* The handles a caller holds: those whisper_init returned (their ids are
\* registered) and whisper_free has not dropped
LiveHandles == {Ptr([model_id |-> id]) : id \in {i \in DOMAIN handles : handles[i] > 0}}

\* The argument triples callers pass to whisper_transcribe: a handle they
\* hold with a buffer, and the triples with a null handle, a null buffer or
\* no samples.
TranscribeArgs ==
    {[handle |-> h, audio_data |-> Samples, audio_len |-> AudioLen] : h \in LiveHandles}
    \cup {[handle |-> Null, audio_data |-> Null, audio_len |-> 0],
          [handle |-> Null, audio_data |-> Samples, audio_len |-> AudioLen]}
    \cup {[handle |-> h, audio_data |-> Null, audio_len |-> AudioLen] : h \in LiveHandles}
    \cup {[handle |-> h, audio_data |-> Samples, audio_len |-> 0] : h \in LiveHandles}

\* A parameter check that lets an empty buffer through
InvalidParameters_no_len(a) ==
    a.handle.null \/ a.audio_data.null

\* whisper_transcribe, line 347
InvalidParameters(a) ==
    a.handle.null \/ a.audio_data.null \/ a.audio_len <= 0

\* whisper_transcribe up to the manager's manage_memory() (lines 347-363, 170-173)
whisper_transcribe(t) ==
    /\ Begin(t)
    /\ \E a \in TranscribeArgs :
         IF InvalidParameters(a)
         THEN /\ Return(t, [call |-> "whisper_transcribe", thread |-> t, arg |-> a,
                            result |-> WhisperResult(FALSE, Null,
                               create_error_string(ErrMsg("Invalid parameters", <<>>)))])
              /\ UNCHANGED readers
         ELSE StartUsage(t, [name |-> "whisper_transcribe", arg |-> a,
                             model_id |-> a.handle.val.model_id],
                         [NoFrame EXCEPT !.start_time = now])
    /\ UNCHANGED <<models, cpu_monitor, now>>
    /\ Observe

\* Lines 176-178: read lock and lookup
tr_read(t) ==
    /\ pc[t] = "tr_read"
    /\ IF op[t].model_id \in DOMAIN models
       THEN /\ readers' = readers \cup {t}
            /\ Goto(t, op[t], "tr_lock", [frame[t] EXCEPT !.cur = op[t].model_id])
       ELSE /\ ReturnErr(t, ErrMsg("Model '{}' not found", op[t].model_id))
            /\ UNCHANGED readers
    /\ UNCHANGED <<models, cpu_monitor, now, calls>>
    /\ Observe

\* Lines 180-181: the slot's lock (an error when it is poisoned), then
\* ensure_loaded up to the call of the engine's constructor
tr_lock(t) ==
    /\ pc[t] = "tr_lock"
    /\ LET id == frame[t].cur
           m == models[id]
           m1 == [ensure_loaded_begin(m, now) EXCEPT !.locked_by = t]
       IN
       /\ MutexFree(m)
       /\ IF m.poisoned
          THEN /\ readers' = readers \ {t}
               /\ ReturnErr(t, ErrMsg("Failed to acquire model lock", <<>>))
               /\ UNCHANGED models
          ELSE IF ~m.ctx /\ ~m.is_loading
          THEN /\ models' = [models EXCEPT ![id] = m1]
               /\ Goto(t, op[t], "tr_load", frame[t])
               /\ UNCHANGED readers
          ELSE IF m1.ctx
          THEN /\ models' = [models EXCEPT ![id] = m1]
               /\ Goto(t, op[t], "tr_infer", frame[t])
               /\ UNCHANGED readers
          ELSE /\ Unlock(t, [models EXCEPT ![id] = m1])
               /\ ReturnErr(t, ErrMsg("Model not loaded", <<>>))
    /\ UNCHANGED <<cpu_monitor, now, calls>>
    /\ Observe

\* Lines 75-87: WhisperContext::new_with_params returns
tr_load(t) ==
    /\ pc[t] = "tr_load"
    /\ LET id == frame[t].cur
           loaded == new_with_params(models[id].model_path)
           m1 == ensure_loaded_end(models[id], loaded)
       IN
       IF loaded
       THEN /\ models' = [models EXCEPT ![id] = m1]
            /\ Goto(t, op[t], "tr_infer", frame[t])
            /\ UNCHANGED readers
       ELSE /\ Unlock(t, [models EXCEPT ![id] = m1])
            /\ ReturnErr(t, ErrMsg("Failed to load model: {}", EngineError))
    /\ UNCHANGED <<cpu_monitor, now, calls>>
    /\ Observe

\* Lines 193-194: context.full returns
tr_infer(t) ==
    /\ pc[t] = "tr_infer"
    /\ \E full_ok \in BOOLEAN :
         IF full_ok
         THEN /\ Goto(t, op[t], "tr_segments", frame[t])
              /\ UNCHANGED <<models, readers>>
         ELSE /\ Unlock(t, models)
              /\ ReturnErr(t, ErrMsg("Transcription failed: {}", EngineError))
    /\ UNCHANGED <<cpu_monitor, now, calls>>
    /\ Observe

\* Line 193: context.full panics.  The unwinding drops the slot guard, which
\* poisons the slot's Mutex, and the read guard (a read guard does not poison
\* an RwLock); the call ends in its thread without a result.
tr_panic(t) ==
    /\ pc[t] = "tr_infer"
    /\ models' = [models EXCEPT ![frame[t].cur].locked_by = NoThread,
                                ![frame[t].cur].poisoned = TRUE]
    /\ readers' = readers \ {t}
    /\ Return(t, [call |-> "panic", thread |-> t])
    /\ UNCHANGED <<cpu_monitor, now, calls>>
    /\ Observe

\* Lines 197-211: the segments are read back and the guards dropped
tr_segments(t) ==
    /\ pc[t] = "tr_segments"
    /\ \E r \in SegmentReads :
         IF r.n_ok
         THEN Goto(t, op[t], "tr_cpu", [frame[t] EXCEPT !.text = full_text(r.segs)])
         ELSE ReturnErr(t, ErrMsg("Failed to get segment count: {}", EngineError))
    /\ Unlock(t, models)
    /\ UNCHANGED <<cpu_monitor, now, calls>>
    /\ Observe

\* Lines 214-221: the CPU sample is recorded and transcribe returns Ok
tr_cpu(t) ==
    /\ pc[t] = "tr_cpu"
    /\ LET cpu_percent == estimated_cpu(now - frame[t].start_time) IN
       /\ cpu_monitor' = record_cpu_usage(cpu_monitor, cpu_percent)
       /\ recorded' = Append(recorded, cpu_percent)
    /\ IF op[t].name = "transcribe"
       THEN Return(t, [call |-> "transcribe", thread |-> t, model_id |-> op[t].model_id,
                       result |-> Ok(frame[t].text)])
       ELSE Goto(t, op[t], "wt_ok", frame[t])
    /\ UNCHANGED <<models, readers, now, calls, handles>>
    /\ ObserveUsage

\* whisper_transcribe, lines 364-381: the downgrade hint (written to stderr)
\* and the conversion of the text
wt_ok(t) ==
    /\ pc[t] = "wt_ok"
    /\ LET c_string == CStringNew(frame[t].text)
           hint == suggest_model_downgrade(cpu_monitor, op[t].model_id)
       IN Return(t, [call |-> "whisper_transcribe", thread |-> t, arg |-> op[t].arg,
                     stderr |-> hint,
                     result |-> IF c_string.ok
                                THEN WhisperResult(TRUE, Ptr(c_string.val), Null)
                                ELSE WhisperResult(FALSE, Null, create_error_string(
                                       ErrMsg("Failed to convert transcription result", <<>>)))])
    /\ UNCHANGED <<models, readers, cpu_monitor, now, calls>>
    /\ Observe

(* ----------------------------------------------------------- whisper_free *)
\* The calls of whisper_transcribe that are reading through a handle of id
InUse(id) ==
    Cardinality({t \in Threads : /\ op[t].name = "whisper_transcribe"
                                 /\ op[t].model_id = id})

\* The handles callers pass to whisper_free: null, or a handle they hold that
\* no call is using (a handle is freed once, and not while in use)
FreeArgs ==
    {Null} \cup {Ptr([model_id |-> id]) :
                    id \in {i \in DOMAIN handles : handles[i] > InUse(i)}}

\* A free that also takes the handle's model out of the registry
whisper_free_unregisters(t) ==
    /\ Begin(t)
    /\ \E handle \in FreeArgs :
         /\ handles' = IF handle.null THEN handles
                        ELSE [i \in DOMAIN handles \ {handle.val.model_id} |-> handles[i]]
         /\ models' = IF handle.null THEN models
                       ELSE [i \in DOMAIN models \ {handle.val.model_id} |-> models[i]]
         /\ Return(t, [call |-> "whisper_free", thread |-> t, arg |-> handle])
    /\ UNCHANGED <<readers, cpu_monitor, now, recorded>>
    /\ ObserveUsage

\* whisper_free, lines 393-399: a non-null handle's Box is dropped, and
\* WHISPER_MANAGER is not touched
whisper_free(t) ==
    /\ Begin(t)
    /\ \E handle \in FreeArgs :
         /\ handles' = IF handle.null THEN handles
                        ELSE [handles EXCEPT ![handle.val.model_id] = @ - 1]
         /\ Return(t, [call |-> "whisper_free", thread |-> t, arg |-> handle])
    /\ UNCHANGED <<models, readers, cpu_monitor, now, recorded>>
    /\ ObserveUsage

(* ------------------------------------------------------------------ clock *)
\* Time passes.  Only differences of Instants are ever read, so the clock is
\* started by the first call.
Tick ==
    /\ now + ClockStep <= MaxTime
    /\ calls > 0
    /\ now' = now + ClockStep
    /\ ret' = NoRet
    /\ UNCHANGED <<models, readers, cpu_monitor, calls, pc, op, frame>>
    /\ Observe

Next ==
    \/ \E t \in Threads : whisper_init(t)
    \/ \E t \in Threads : register_model(t)
    \/ \E t \in Threads : whisper_get_memory_usage(t)
    \/ \E t \in Threads : whisper_cleanup_memory(t)
    \/ \E t \in Threads : transcribe(t)
    \/ \E t \in Threads : whisper_transcribe(t)
    \/ \E t \in Threads : cmu_lock(t)
    \/ \E t \in Threads : mm_read(t)
    \/ \E t \in Threads : mm_lock(t)
    \/ \E t \in Threads : tr_read(t)
    \/ \E t \in Threads : tr_lock(t)
    \/ \E t \in Threads : tr_load(t)
    \/ \E t \in Threads : tr_infer(t)
    \/ \E t \in Threads : tr_panic(t)
    \/ \E t \in Threads : tr_segments(t)
    \/ \E t \in Threads : tr_cpu(t)
    \/ \E t \in Threads : wt_ok(t)
    \/ \E t \in Threads : whisper_free(t)
    \/ Tick

Spec == Init /\ [][Next]_vars

\* The state Spec is in once whisper_init has returned for the two loadable
\* paths (reached in Spec; see RegisteredReached), taken as the start so that
\* the calls that follow fit the bound on calls.
RegisteredModels ==
    [id \in {ModelIdOf(PathMedium), ModelIdOf(PathTiny)} |->
        LET path_str == IF id = ModelIdOf(PathMedium) THEN PathMedium ELSE PathTiny
        IN WhisperModel_new(path_str, InitModelInfo(path_str), 0)]

InitRegistered ==
    /\ models = RegisteredModels
    /\ readers = {}
    /\ cpu_monitor = CpuMonitor_new
    /\ now = 0
    /\ calls = 0
    /\ pc = [t \in Threads |-> "idle"]
    /\ op = [t \in Threads |-> NoOp]
    /\ frame = [t \in Threads |-> NoFrame]
    /\ ret = NoRet
    /\ seen = [t \in Threads |-> {}]
    /\ recorded = <<>>
    /\ handles = [id \in DOMAIN models |-> 1]

SpecRegistered == InitRegistered /\ [][Next]_vars

\* InitRegistered is a state of Spec: TLC reaches it (up to the count of calls)
RegisteredReached ==
    /\ models = RegisteredModels
    /\ \A t \in Threads : pc[t] = "idle"

(* --------------------------------------------------------------- fairness *)
\* The steps of a call that has started: lock acquisitions and engine calls
ThreadStep(t) ==
    \/ register_model(t)
    \/ cmu_lock(t)
    \/ mm_read(t)
    \/ mm_lock(t)
    \/ tr_read(t)
    \/ tr_lock(t)
    \/ tr_load(t)
    \/ tr_infer(t)
    \/ tr_segments(t)
    \/ tr_cpu(t)
    \/ wt_ok(t)

\* Every engine call returns and every lock is granted fairly: a thread whose
\* next step is possible again and again takes it
SpecFair == Spec /\ \A t \in Threads : SF_vars(ThreadStep(t))

(* --------------------------------------------------- the CpuMonitor alone *)
MaxSamplesFed == 12      \* samples recorded in one behaviour of SpecMonitor

\* Values of estimated_cpu: 0.6 s and 1 s (or more) of elapsed wall time
SampleValues == {60, 100}

\* Further paths callers pass to whisper_init
PathSmall == <<"s", "m", "a", "l", "l", ".", "e", "n">>
PathBase == <<"b", "a", "s", "e", ".", "e", "n">>
PathMediumDirTiny ==
    <<"m", "e", "d", "i", "u", "m", "/", "t", "i", "n", "y", ".", "e", "n">>
MonitorPaths == {PathTiny, PathSmall, PathMedium, PathBase, PathMediumDirTiny}

\* The registry once whisper_init has returned a handle for each of them
MonitorModels ==
    [id \in {ModelIdOf(p) : p \in MonitorPaths} |->
        LET path_str == CHOOSE p \in MonitorPaths : ModelIdOf(p) = id
        IN WhisperModel_new(path_str, InitModelInfo(path_str), 0)]

InitMonitor ==
    /\ models = MonitorModels
    /\ readers = {}
    /\ cpu_monitor = CpuMonitor_new
    /\ now = 0
    /\ calls = 0
    /\ pc = [t \in Threads |-> "idle"]
    /\ op = [t \in Threads |-> NoOp]
    /\ frame = [t \in Threads |-> NoFrame]
    /\ ret = NoRet
    /\ seen = [t \in Threads |-> {}]
    /\ recorded = <<>>
    /\ handles = [id \in DOMAIN models |-> 1]

\* A transcribe() call completes; of it this specification keeps the sample
\* it records under the monitor's lock (lines 214-219)
transcribe_records ==
    /\ Len(recorded) < MaxSamplesFed
    /\ \E cpu_percent \in SampleValues :
         /\ cpu_monitor' = record_cpu_usage(cpu_monitor, cpu_percent)
         /\ recorded' = Append(recorded, cpu_percent)
    /\ ret' = NoRet
    /\ UNCHANGED <<models, readers, now, calls, pc, op, frame, seen, handles>>

\* The handles callers pass to whisper_get_suggested_model
HandleArgs == {Null} \cup LiveHandles

\* whisper_get_avg_cpu_usage
whisper_get_avg_cpu_usage ==
    /\ ret' = [call |-> "whisper_get_avg_cpu_usage",
               value |-> average_cpu_usage(cpu_monitor)]
    /\ UNCHANGED <<models, readers, cpu_monitor, now, calls, pc, op, frame, seen,
                   recorded, handles>>

\* whisper_get_suggested_model
whisper_get_suggested_model ==
    /\ \E handle \in HandleArgs :
         ret' = [call |-> "whisper_get_suggested_model", arg |-> handle,
                 value |->
                    IF handle.null THEN Null
                    ELSE LET suggested == suggest_model_downgrade(cpu_monitor,
                                                                  handle.val.model_id)
                         IN IF suggested.null THEN Null
                            ELSE IF CStringNew(suggested.val).ok
                                 THEN Ptr(CStringNew(suggested.val).val)
                                 ELSE Null]
    /\ UNCHANGED <<models, readers, cpu_monitor, now, calls, pc, op, frame, seen,
                   recorded, handles>>

NextMonitor ==
    \/ transcribe_records
    \/ whisper_get_avg_cpu_usage
    \/ whisper_get_suggested_model

SpecMonitor == InitMonitor /\ [][NextMonitor]_vars

(* ================================================================ claims *)
\* The load-or-infer section of transcribe: ensure_loaded's load, the engine
\* call, the segment read-back
InSection(t) == pc[t] \in {"tr_load", "tr_infer", "tr_segments"}
IsTranscribe(o) == o.name \in {"transcribe", "whisper_transcribe"}
\* Thread u cannot move until the Mutex of the slot it is at is released
WaitsForSlot(u) ==
    /\ pc[u] \in {"cmu_lock", "mm_lock", "tr_lock"}
    /\ models[frame[u].cur].locked_by # NoThread

\* C1: while a thread is inside the engine call for id A, a transcribe() on
\* another registered id B never waits for the call on A to finish: no thread
\* transcribing B is stopped at the Mutex of A's slot.
C1_DistinctIdsDoNotBlock ==
    \A t, u \in Threads :
        (/\ t # u
         /\ pc[t] = "tr_infer"
         /\ IsTranscribe(op[u])
         /\ op[u].model_id \in DOMAIN models
         /\ op[u].model_id # op[t].model_id)
        => ~(WaitsForSlot(u) /\ frame[u].cur = frame[t].cur)

\* C2: at most one thread at a time is in the load-or-infer section of an id,
\* the thread in it holds the slot's Mutex, and while it is there nobody else
\* writes the slot's last_used or replaces the slot, so the next transcribe()
\* on the id finds the last-used time this one wrote.
C2_SlotExclusive ==
    \A t \in Threads :
        InSection(t) =>
            /\ frame[t].cur \in DOMAIN models
            /\ models[frame[t].cur].locked_by = t
            /\ \A u \in Threads \ {t} : InSection(u) => frame[u].cur # frame[t].cur

C2_LastUsedKept ==
    \A t \in Threads :
        (InSection(t) /\ InSection(t)') =>
            /\ frame[t].cur \in DOMAIN models'
            /\ models'[frame[t].cur].last_used = models[frame[t].cur].last_used

C2_SerializedPerId == [](C2_SlotExclusive) /\ [][C2_LastUsedKept]_vars

\* C2 witness: one thread is in the section of an id and another thread's
\* transcribe() on the same id waits at the slot's Mutex
C2_Witness ==
    \E t, u \in Threads :
        /\ t # u
        /\ InSection(t)
        /\ pc[u] = "tr_lock"
        /\ frame[u].cur = frame[t].cur

\* C3: the value whisper_get_memory_usage returns is the sum of memory_usage()
\* over the registry at some single moment of the call.
C3_UsageIsSnapshot ==
    ret.call = "whisper_get_memory_usage" => ret.value \in seen[ret.thread]

\* C4: a step of manage_memory's scan takes a slot from resident to unloaded
\* only if its time since last use exceeds its idle timeout at that moment; a
\* resident slot within its idle window stays resident.
C4_ScanStep(t) ==
    /\ pc[t] = "mm_lock"
    /\ <<pc[t], frame[t]>> # <<pc'[t], frame'[t]>>

C4_Step ==
    \A t \in Threads :
        C4_ScanStep(t) =>
            \A id \in DOMAIN models :
                /\ id \in DOMAIN models'
                /\ (models[id].ctx /\ ~models'[id].ctx)
                      => (now - models[id].last_used) > models[id].idle_timeout
                /\ (models[id].ctx /\ (now - models[id].last_used) <= models[id].idle_timeout)
                      => models'[id].ctx

C4_OnlyIdleUnloaded == [][C4_Step]_vars

\* C4 witness: a scan (the total was over the limit) is about to inspect a
\* resident slot that is within its idle window, and the total is over the
\* limit
C4_Witness ==
    \E t \in Threads :
        /\ pc[t] = "mm_lock"
        /\ models[frame[t].cur].ctx
        /\ models[frame[t].cur].locked_by = NoThread
        /\ (now - models[frame[t].cur].last_used) <= models[frame[t].cur].idle_timeout
        /\ TotalUsage(models) > memory_limit

\* The error a transcribe() or whisper_transcribe call returned, if any
RetIsTranscribe ==
    \/ ret.call = "transcribe"
    \/ ret.call = "whisper_transcribe" /\ ~ret.arg.handle.null
          /\ ~ret.arg.audio_data.null /\ ret.arg.audio_len > 0
RetModelId ==
    IF ret.call = "transcribe" THEN ret.model_id ELSE ret.arg.handle.val.model_id
RetFailed ==
    IF ret.call = "transcribe" THEN ~ret.result.ok ELSE ~ret.result.success
RetErrFmt ==
    IF ret.call = "transcribe" THEN ret.result.err.fmt ELSE ret.result.error.val.fmt

\* C5: transcribe() on an id that is not registered fails with ModelNotFound;
\* on a registered id whose model cannot be loaded it fails with LoadFailure
\* and leaves the slot unloaded, not loading and unlocked, so that the next
\* ensure_loaded() attempts the load again.
C5_TranscribeFailures ==
    RetIsTranscribe =>
        /\ RetModelId \notin DOMAIN models
              => RetFailed /\ RetErrFmt = "Model '{}' not found"
        /\ (RetModelId \in DOMAIN models /\ models[RetModelId].model_path \notin LoadablePaths)
              => /\ RetFailed
                 /\ RetErrFmt = "Failed to load model: {}"
                 /\ ~models[RetModelId].ctx
                 /\ ~models[RetModelId].is_loading
                 /\ models[RetModelId].locked_by = NoThread

\* C5 witness: a transcription on a registered id has just returned LoadFailure
C5_Witness ==
    /\ RetIsTranscribe
    /\ RetModelId \in DOMAIN models
    /\ RetFailed
    /\ RetErrFmt = "Failed to load model: {}"

\* C6: whisper_init with a non-null path that names no loadable model returns
\* a null handle.
C6_InitNullOnUnloadablePath ==
    (/\ ret.call = "whisper_init"
     /\ ~ret.arg.null
     /\ ret.arg.utf8
     /\ ret.arg.val \notin LoadablePaths)
    => ret.handle = Null

\* C7: every whisper_transcribe call returns success with a text and no
\* error, or failure with an error and no text; with a null handle, a null
\* buffer or no samples it returns the "Invalid parameters" failure in its
\* first step, leaving the manager untouched.
C7_ResultShape ==
    ret.call = "whisper_transcribe" =>
        /\ \/ ret.result.success /\ ~ret.result.text.null /\ ret.result.error.null
           \/ ~ret.result.success /\ ret.result.text.null /\ ~ret.result.error.null
        /\ (ret.arg.handle.null \/ ret.arg.audio_data.null \/ ret.arg.audio_len = 0)
              => /\ ~ret.result.success
                 /\ ret.result.error = Ptr(ErrMsg("Invalid parameters", <<>>))

C7_InvalidStep ==
    (/\ ret'.call = "whisper_transcribe"
     /\ (ret'.arg.handle.null \/ ret'.arg.audio_data.null \/ ret'.arg.audio_len = 0))
    => /\ pc[ret'.thread] = "idle"
       /\ UNCHANGED <<models, readers, cpu_monitor>>

C7_ExactlyOneOfTextError == [](C7_ResultShape) /\ [][C7_InvalidStep]_vars

\* C7 witness: a whisper_transcribe call has just returned success with a text
C7_Witness ==
    /\ ret.call = "whisper_transcribe"
    /\ ret.result.success
    /\ ~ret.result.text.null

\* C8: a slot's memory_usage() is 0 when it holds no engine handle and the
\* memory footprint of the ModelInfo it was registered with when it holds one.
C8_MemoryUsage ==
    \A id \in DOMAIN models :
        LET m == models[id] IN
        /\ ~m.ctx => memory_usage(m) = 0
        /\ m.ctx => memory_usage(m) = InitModelInfo(m.model_path).memory_usage
        /\ m.ctx => memory_usage(m) > 0

\* C8 witness: one slot holds a handle while another, registered, holds none
C8_Witness ==
    \E a, b \in DOMAIN models : models[a].ctx /\ ~models[b].ctx

\* C9: should_unload() is true iff the slot is resident and the time since
\* last use exceeds idle_timeout; it is false right after a successful load
\* and right after any ensure_loaded() call on a resident slot.
C9_Iff ==
    \A id \in DOMAIN models :
        should_unload(models[id], now)
            <=> (models[id].ctx /\ (now - models[id].last_used) > models[id].idle_timeout)

C9_AfterEnsureLoaded ==
    \A t \in Threads :
        (/\ pc[t] \in {"tr_lock", "tr_load"}
         /\ pc'[t] = "tr_infer")
        => ~should_unload(models'[frame'[t].cur], now')

C9_ShouldUnload == [](C9_Iff) /\ [][C9_AfterEnsureLoaded]_vars

\* C10: a slot that was never loaded (here: one whose path cannot be loaded)
\* reports should_unload() once its timeout has passed since its creation.
C10_NeverLoadedShouldUnload ==
    \A id \in DOMAIN models :
        (/\ models[id].model_path \notin LoadablePaths
         /\ (now - models[id].last_used) > models[id].idle_timeout)
        => should_unload(models[id], now)

\* The last n elements of a sequence, and how often v occurs in one
LastN(s, n) == IF Len(s) <= n THEN s ELSE SubSeq(s, Len(s) - n + 1, Len(s))
Count(s, v) == Cardinality({i \in DOMAIN s : s[i] = v})

\* C11: after n record_cpu_usage calls the monitor holds exactly the last
\* min(n, 10) recorded samples, sample_count is n, and average_cpu_usage() is
\* the mean of the held samples (0 when n = 0); once the monitor is full a new
\* sample takes the place of the oldest held one.
C11_Held ==
    LET n == Len(recorded)
        held == cpu_monitor.cpu_samples
        last == LastN(recorded, 10)
        avg == average_cpu_usage(cpu_monitor)
    IN /\ Len(held) = (IF n < 10 THEN n ELSE 10)
       /\ \A v \in SampleValues \cup {0} : Count(held, v) = Count(last, v)
       /\ \A i \in DOMAIN held : held[i] \in SampleValues \cup {0}
       /\ cpu_monitor.sample_count = n
       /\ avg.den > 0
       /\ IF n = 0 THEN avg.num = 0
          ELSE avg.num * Len(last) = SeqSum(last) * avg.den

C11_ReplacesOldest ==
    LET n == Len(recorded) IN
    (Len(recorded') = n + 1 /\ n >= 10) =>
        \E i \in 1..10 :
            /\ cpu_monitor.cpu_samples[i] = recorded[n - 9]
            /\ cpu_monitor'.cpu_samples =
                  [cpu_monitor.cpu_samples EXCEPT ![i] = recorded'[n + 1]]

C11_RingBuffer == [](C11_Held) /\ [][C11_ReplacesOldest]_vars

\* C11 witness: eleven samples were fed, the first unlike the others, and the
\* monitor holds the ten others
C11_Witness ==
    /\ Len(recorded) = 11
    /\ recorded[1] = 100
    /\ \A i \in 2..11 : recorded[i] = 60
    /\ Len(cpu_monitor.cpu_samples) = 10
    /\ \A i \in 1..10 : cpu_monitor.cpu_samples[i] = 60

\* C12: with the rolling average strictly above 80 the suggestion is "small"
\* for an id containing "medium" and "tiny" for an id containing "small"; with
\* the average at 80 or below there is none for any id; for an id containing
\* "tiny" there is none whatever the average.
C12_Suggestion ==
    ret.call = "whisper_get_suggested_model" /\ ~ret.arg.null =>
        LET id == ret.arg.val.model_id
            last == LastN(recorded, 10)
            high == last # <<>> /\ SeqSum(last) > 80 * Len(last)
        IN /\ (high /\ Contains(id, <<"m", "e", "d", "i", "u", "m">>))
                 => ret.value = Ptr(<<"s", "m", "a", "l", "l">>)
           /\ (high /\ Contains(id, <<"s", "m", "a", "l", "l">>))
                 => ret.value = Ptr(<<"t", "i", "n", "y">>)
           /\ ~high => ret.value = Null
           /\ Contains(id, <<"t", "i", "n", "y">>) => ret.value = Null

\* C13: the step in which register_model inserts its slot is taken with no
\* registry guard out; right after it the slot at the id holds no handle and
\* contributes 0, every other id's slot is as before, and the total of
\* memory_usage() has not grown.  The total grows only in the step in which a
\* transcription's load succeeds.
C13_RegisterStep ==
    (ret'.call = "whisper_init" /\ ~ret'.handle.null) =>
        LET id == ret'.handle.val.model_id IN
        /\ readers = {}
        /\ DOMAIN models' = DOMAIN models \cup {id}
        /\ ~models'[id].ctx
        /\ memory_usage(models'[id]) = 0
        /\ models'[id].locked_by = NoThread
        /\ \A other \in DOMAIN models \ {id} : models'[other] = models[other]
        /\ TotalUsage(models') <= TotalUsage(models)

C13_GrowsOnlyByLoad ==
    TotalUsage(models') > TotalUsage(models) =>
        \E t \in Threads : pc[t] = "tr_load" /\ pc'[t] = "tr_infer"

C13_RegisterFresh == [][C13_RegisterStep /\ C13_GrowsOnlyByLoad]_vars

\* C13 witness: the only registered id was loaded by a transcription that
\* completed, and has just been registered again
C13_Witness ==
    /\ ret.call = "whisper_init"
    /\ ~ret.handle.null
    /\ DOMAIN models = {ret.handle.val.model_id}
    /\ recorded # <<>>
    /\ ~models[ret.handle.val.model_id].ctx

\* C14: a transcribe() call whose engine call has completed goes on to record
\* one CPU sample, and a thread that is at the CpuMonitor's lock (recording, or
\* reading the average for the downgrade hint) holds no slot lock and no
\* registry guard.
C14_LocksApart ==
    \A t \in Threads :
        pc[t] \in {"tr_cpu", "wt_ok"} =>
            /\ t \notin readers
            /\ \A id \in DOMAIN models : models[id].locked_by # t

C14_RecordsOne ==
    \A t \in Threads :
        /\ (pc[t] = "tr_segments" /\ pc'[t] # "tr_segments") => pc'[t] = "tr_cpu"
        /\ (pc[t] = "tr_cpu" /\ pc'[t] # "tr_cpu")
              => cpu_monitor'.sample_count = cpu_monitor.sample_count + 1

C14_SampleOutsideSlotLock == [](C14_LocksApart) /\ [][C14_RecordsOne]_vars

\* A thread takes its step at a slot lock that is poisoned: lock() fails
FailsToLock(t) ==
    /\ pc[t] \in {"cmu_lock", "mm_lock", "tr_lock"}
    /\ models[frame[t].cur].poisoned
    /\ <<pc[t], frame[t]>> # <<pc'[t], frame'[t]>>

\* The call of thread t returns an error in this step
ReturnsError(t) ==
    /\ pc'[t] = "idle"
    /\ ret'.call # "none"
    /\ ret'.thread = t
    /\ \/ ret'.call = "transcribe" /\ ~ret'.result.ok
       \/ ret'.call = "whisper_transcribe" /\ ~ret'.result.success
       \/ ret'.call = "whisper_cleanup_memory" /\ ~ret'.value

\* C15: an operation that fails to acquire a slot lock it needs returns an
\* error to its caller in that step; it does not go on to complete.
C15_LockFailureStep ==
    \A t \in Threads : FailsToLock(t) => ReturnsError(t)

C15_LockFailureSurfaced == [][C15_LockFailureStep]_vars

\* The engine handle of thread t's slot is in use: from context.full to the
\* last segment read
InFlight(t) == pc[t] \in {"tr_infer", "tr_segments"}

\* C16: while an inference on a slot is in flight the slot stays in the
\* registry, keeps its handle and stays locked by the inferring thread,
\* whatever manage_memory passes, unloads and registrations other threads run.
C16_HandleKeptInFlight ==
    \A t \in Threads :
        InFlight(t) =>
            /\ frame[t].cur \in DOMAIN models
            /\ models[frame[t].cur].ctx
            /\ models[frame[t].cur].locked_by = t

\* C16 witness: an inference is in flight on a slot that is past its idle
\* timeout, and a manage_memory pass that found the total over the limit
\* stands at that slot
C16_Witness ==
    \E t, u \in Threads :
        /\ InFlight(t)
        /\ pc[u] = "mm_lock"
        /\ frame[u].cur = frame[t].cur
        /\ (now - models[frame[t].cur].last_used) > models[frame[t].cur].idle_timeout

\* Thread t is in manage_memory and takes a step
ManageStep(t) ==
    /\ pc[t] \in {"cmu_lock", "mm_read", "mm_lock"}
    /\ op[t].name # "whisper_get_memory_usage"
    /\ <<pc[t], frame[t]>> # <<pc'[t], frame'[t]>>

\* C17: manage_memory scans only when the usage it found is over 700 MB.  A
\* pass that found 700 MB or less never reaches the scan, and no step of it
\* changes a slot; a slot goes from resident to unloaded only in a scan step
\* of a pass that found more than 700 MB (or by being registered again), and
\* no step of manage_memory writes a last-used time.
C17_ScanOnlyOverLimit ==
    \A t \in Threads :
        pc[t] \in {"mm_read", "mm_lock"} => frame[t].usage > 700 * MB

C17_PassStep ==
    /\ \A t \in Threads :
          ManageStep(t) =>
              /\ DOMAIN models' = DOMAIN models
              /\ \A id \in DOMAIN models :
                    models'[id].last_used = models[id].last_used
              /\ frame[t].usage <= 700 * MB /\ pc[t] # "cmu_lock"
                    => models' = models
              /\ pc[t] = "cmu_lock" => models' = models
    /\ \A id \in DOMAIN models :
          (models[id].ctx /\ id \in DOMAIN models' /\ ~models'[id].ctx) =>
              \/ ret'.call = "whisper_init"
              \/ \E t \in Threads :
                    /\ pc[t] = "mm_lock"
                    /\ frame[t].cur = id
                    /\ frame[t].usage > 700 * MB

C17_UnderLimitNoChange == [](C17_ScanOnlyOverLimit) /\ [][C17_PassStep]_vars

\* C17 witness: whisper_cleanup_memory has just returned, the total is within
\* the limit, and a resident slot whose idle timeout has elapsed is still
\* resident
C17_Witness ==
    /\ ret.call = "whisper_cleanup_memory"
    /\ TotalUsage(models) <= 700 * MB
    /\ \E id \in DOMAIN models :
          /\ models[id].ctx
          /\ (now - models[id].last_used) > models[id].idle_timeout

\* C18: a thread holds a slot lock only inside a registry read guard, and only
\* the lock of the one slot it is at; it asks for the write guard and for the
\* CpuMonitor's lock holding nothing; while a call is under way some thread
\* can take a step; and, the engine returning and the locks being granted
\* fairly, every call that started returns.
C18_LockOrder ==
    \A t \in Threads :
        /\ \A id \in DOMAIN models :
              models[id].locked_by = t => (t \in readers /\ frame[t].cur = id)
        /\ pc[t] \in {"idle", "reg_write", "mm_read", "tr_read", "tr_cpu", "wt_ok"} =>
              /\ t \notin readers
              /\ \A id \in DOMAIN models : models[id].locked_by # t

C18_NoDeadlock ==
    (\E t \in Threads : pc[t] # "idle") => (\E t \in Threads : ENABLED ThreadStep(t))

C18_EveryCallReturns ==
    /\ [](C18_LockOrder /\ C18_NoDeadlock)
    /\ \A t \in Threads : (pc[t] # "idle") ~> (pc[t] = "idle")

\* C18 witness: two threads hold read guards and one of them, inside
\* manage_memory, waits for the slot lock the other holds in its section
C18_Witness ==
    \E t, u \in Threads :
        /\ InSection(t)
        /\ pc[u] \in {"cmu_lock", "mm_lock"}
        /\ op[u].name # "whisper_get_memory_usage"
        /\ models[frame[u].cur].locked_by = t
        /\ {t, u} \subseteq readers

\* WhisperManager::transcribe returns Ok / Err in this step (to its caller, or
\* inside whisper_transcribe)
TranscribeReturnsOk(t) ==
    /\ pc[t] = "tr_cpu"
    /\ \/ pc'[t] = "wt_ok"
       \/ ret'.call = "transcribe" /\ ret'.thread = t /\ ret'.result.ok

TranscribeReturnsErr(t) ==
    /\ pc[t] \in {"cmu_lock", "mm_read", "mm_lock", "tr_read", "tr_lock", "tr_load",
                  "tr_infer", "tr_segments"}
    /\ IsTranscribe(op[t])
    /\ pc'[t] = "idle"
    /\ ret'.call \in {"transcribe", "whisper_transcribe"}
    /\ ret'.thread = t

\* C19: a step in which transcribe() returns an error leaves the CpuMonitor
\* as it was; the monitor changes only in the step in which a transcribe()
\* returns Ok, and then sample_count grows by one: sample_count counts the
\* transcribe() calls that returned success.
C19_Step ==
    /\ \A t \in Threads : TranscribeReturnsErr(t) => cpu_monitor' = cpu_monitor
    /\ \A t \in Threads :
          TranscribeReturnsOk(t) =>
              cpu_monitor'.sample_count = cpu_monitor.sample_count + 1
    /\ cpu_monitor' # cpu_monitor => \E t \in Threads : TranscribeReturnsOk(t)

C19_SamplesCountSuccesses ==
    [](cpu_monitor.sample_count = Len(recorded)) /\ [][C19_Step]_vars

\* C19 witness: one transcription has succeeded, another has just returned
\* an inference failure, and the monitor holds one sample
C19_Witness ==
    /\ ret.call = "whisper_transcribe"
    /\ ~ret.result.success
    /\ ~ret.result.error.null
    /\ ret.result.error.val.fmt \in {"Transcription failed: {}",
                                     "Failed to get segment count: {}"}
    /\ cpu_monitor.sample_count = 1

\* A thread's transcribe() is between its lookup of the slot and its release
\* of it
HasSlot(t) == pc[t] \in {"tr_lock", "tr_load", "tr_infer", "tr_segments"}

\* C20: register_model takes effect only in steps in which no transcribe()
\* is between its lookup and its release of a slot, and a thread between the
\* two holds a read guard and is at the slot stored in the registry under its
\* id, which stays the same slot up to the release.
C20_SlotIsCurrent ==
    \A t \in Threads :
        HasSlot(t) =>
            /\ t \in readers
            /\ frame[t].cur = op[t].model_id
            /\ frame[t].cur \in DOMAIN models
            /\ pc[t] # "tr_lock" => models[frame[t].cur].locked_by = t

C20_RegisterStep ==
    /\ (\E u \in Threads : pc[u] = "reg_write" /\ pc'[u] = "idle")
          => \A t \in Threads : ~HasSlot(t)
    /\ \A t \in Threads :
          (HasSlot(t) /\ HasSlot(t)') =>
              /\ DOMAIN models' = DOMAIN models
              /\ models'[frame[t].cur].model_path = models[frame[t].cur].model_path
              /\ models'[frame[t].cur].model_info = models[frame[t].cur].model_info

C20_RegistryStableInTranscribe == [](C20_SlotIsCurrent) /\ [][C20_RegisterStep]_vars

\* C20 witness: a transcription is in its section on an id while another
\* thread's register_model for the same id waits for the write guard
C20_Witness ==
    \E t, u \in Threads :
        /\ InSection(t)
        /\ pc[u] = "reg_write"
        /\ ModelIdOf(op[u].arg.val) = frame[t].cur

\* A step in which whisper_free returns
FreeReturns == ret'.call = "whisper_free"

\* C21: whisper_free changes nothing in the manager.  In the step in which
\* free(handle) returns, the registry, the read guards and the CPU monitor
\* are what they were; for a non-null handle its model id is still
\* registered and its slot keeps its residency and its last-used time; and
\* the total current_memory_usage() computes is the same before and after.
C21_FreeStep ==
    FreeReturns =>
        /\ models' = models
        /\ readers' = readers
        /\ cpu_monitor' = cpu_monitor
        /\ TotalUsage(models') = TotalUsage(models)
        /\ ~ret'.arg.null =>
              LET id == ret'.arg.val.model_id IN
              /\ id \in DOMAIN models'
              /\ models'[id].ctx = models[id].ctx
              /\ models'[id].last_used = models[id].last_used

C21_FreeChangesNothing == [][C21_FreeStep]_vars

\* C21 witness: the last handle of a model has just been freed while the
\* model's slot is resident and counts in the memory total
C21_Witness ==
    /\ ret.call = "whisper_free"
    /\ ~ret.arg.null
    /\ handles[ret.arg.val.model_id] = 0
    /\ models[ret.arg.val.model_id].ctx
    /\ TotalUsage(models) > 0
====
